---- MODULE Spec2Model ----
(***************************************************************************)
(* A model of nodes.py of ComfyUI-Lightx2vWrapper: the node classes the    *)
(* host calls (loaders, encoders, sampler, decoder), as a state machine.   *)
(*                                                                         *)
(* Python values are modelled as follows.                                  *)
(*   - a str or pathlib.Path naming a file is a record                     *)
(*       [kind |-> "str" | "Path" | "None", abs |-> BOOLEAN, parts |-> seq] *)
(*     (kind "None" is Python's None);                                     *)
(*   - a dict / EasyDict is a function from key strings to values;        *)
(*   - a float widget value is an integer count of thousandths             *)
(*     (0.26 is 260, 1.0 is 1000).                                         *)
(* The file system is the set fs of absolute paths that exist.             *)
(***************************************************************************)
EXTENDS Integers, Sequences, FiniteSets, TLC

VARIABLES
    fs,             \* the absolute paths that exist on disk
    config_json,    \* the content of config.json in the model directory
    last,           \* the outcome of the last loader call
    wan_model,      \* the value load_model returned, as the host holds it
    loader_args,    \* history: the arguments of the load_model call that returned it
    loader_config,  \* history: the config of wan_model as load_model returned it
    ran_before,     \* history: the sample calls made on wan_model: "never", "first", "later"
    pc,             \* the position of the running sample call
    args,           \* the arguments of the running (or the last) sample call
    scheduler,      \* the scheduler object sample built
    calls,          \* the calls sample made on the wrapped objects, in order
    progress,       \* the ProgressBar of sample: its total and its updates
    step_index,     \* the loop variable of sample
    outcome,        \* how the last sample call ended
    bound,          \* per node, how the host's keyword call of FUNCTION ended
    dpc,            \* the position of the running decode_latent call
    latent,         \* the input of decode_latent
    decoded_images, \* the tensor wan_vae.decode returned to decode_latent
    images,         \* the tensor decode_latent works on
    dcalls,         \* the calls decode_latent made, in order
    epc,            \* the position of the running encode_image call
    econfig,        \* the config of the running (or the last) encode_image call
    msk,            \* the first-frame mask encode_image builds
    eout            \* what the last encode_image call returned or raised

vars == <<fs, config_json, last, wan_model, loader_args, loader_config, ran_before,
          pc, args, scheduler, calls, progress, step_index, outcome, bound,
          dpc, latent, decoded_images, images, dcalls, epc, econfig, msk, eout>>

envVars == <<fs, config_json>>
loadVars == <<last, wan_model, loader_args, loader_config, ran_before>>
sampleVars == <<pc, args, scheduler, calls, progress, step_index, outcome>>
hostVars == <<bound>>
decodeVars == <<dpc, latent, decoded_images, images, dcalls>>
encodeVars == <<epc, econfig, msk, eout>>

----------------------------------------------------------------------------
(* Python dicts *)

\* dict.update(e): the keys of e are set in d, the other keys of d are kept.
Update(d, e) ==
    [k \in (DOMAIN d) \cup (DOMAIN e) |-> IF k \in DOMAIN e THEN e[k] ELSE d[k]]

\* d[k] = v for one key.
Set(d, k, v) == Update(d, k :> v)

\* The None of a dict-valued slot.
NoneD == [none |-> TRUE]
IsNone(x) == "none" \in DOMAIN x

----------------------------------------------------------------------------
(* Paths: str and pathlib.Path *)

Str(abs, parts) == [kind |-> "str", abs |-> abs, parts |-> parts]
NoneP == [kind |-> "None", abs |-> FALSE, parts |-> <<>>]

\* Truth value of a str, a Path or None: None and "" are false, a Path is
\* always true (pathlib defines no __bool__).
Truthy(v) ==
    CASE v.kind = "None" -> FALSE
      [] v.kind = "str" -> v.abs \/ v.parts # <<>>
      [] OTHER -> TRUE

\* Path(s)
PathOf(s) == [kind |-> "Path", abs |-> s.abs, parts |-> s.parts]

\* p / s: an absolute right operand replaces the left one.
Join(p, s) ==
    IF s.abs THEN PathOf(s)
    ELSE [kind |-> "Path", abs |-> p.abs, parts |-> p.parts \o s.parts]

\* p.parent
Parent(p) ==
    IF p.parts = <<>> THEN p
    ELSE [p EXCEPT !.parts = SubSeq(p.parts, 1, Len(p.parts) - 1)]

\* The absolute path a path names: a relative one is taken from the working
\* directory.
Cwd == <<"cwd">>
Resolve(p) == IF p.abs THEN p.parts ELSE Cwd \o p.parts

\* p.exists(), p.is_dir() on the file system f
Exists(f, p) == Resolve(p) \in f
DirPaths ==
    {<<"M">>, <<"M", "tok">>, <<"M", "google">>, <<"M", "google", "umt5-xxl">>, Cwd}
IsDir(f, p) == Exists(f, p) /\ Resolve(p) \in DirPaths

\* Whether v has the method exists(): a Path has, a str raises AttributeError.
HasExists(v) == v.kind = "Path"

----------------------------------------------------------------------------
(* The file systems and the widget values the model draws from *)

ModelDirPath == <<"M">>
CkptPath == <<"M", "ckpt">>
ConfigJsonPath == <<"M", "config.json">>
ClipTokPath == <<"M", "tok">>
T5TokPath == <<"M", "google", "umt5-xxl">>

\* Every file system holds the working directory; the model directory, when
\* it exists, holds any of the checkpoint, config.json and the tokenizers.
Under == {CkptPath, ConfigJsonPath, ClipTokPath, T5TokPath}
FileSystems ==
    {{Cwd}} \cup
    {{Cwd, ModelDirPath} \cup s \cup
        (IF T5TokPath \in s THEN {<<"M", "google">>} ELSE {}) : s \in SUBSET Under}

\* model_name, tokenizer_path: the empty string, relative names, absolute paths.
ModelNames ==
    {Str(FALSE, <<>>), Str(FALSE, <<"ckpt">>), Str(FALSE, <<"nofile">>),
     Str(TRUE, CkptPath), Str(TRUE, ModelDirPath)}
TokenizerNames == {Str(FALSE, <<"tok">>), Str(TRUE, ClipTokPath), Str(FALSE, <<"notok">>)}
\* model_dir: omitted (None), empty, or the model directory.
ModelDirs == {NoneP, Str(FALSE, <<>>), Str(TRUE, ModelDirPath)}

\* config.json: nothing, keys no widget sets, and keys a widget also sets.
EmptyDict == [k \in {} |-> TRUE]
ConfigJsons ==
    {EmptyDict,
     [dim |-> 5120, task |-> "t2v"],
     [task |-> "flf2v"],
     [feature_caching |-> "TaylorSeer"],
     [feature_caching |-> "Tea", teacache_thresh |-> 200],
     [cpu_offload |-> TRUE, num_channels_latents |-> 36]}

----------------------------------------------------------------------------
(* The checkpoint loaders.  Each operator gives the outcome of one call:    *)
(* error is the exception that ended it ("none" when it returned), ctor the *)
(* wrapped-library constructor it invoked ("none" when it invoked none),    *)
(* checkpoint_path and tokenizer_path what the call resolved them to.       *)

LoadResult(fn, error, ctor, ckpt, tok, given) ==
    [fn |-> fn, error |-> error, ctor |-> ctor, checkpoint_path |-> ckpt,
     tokenizer_path |-> tok, model_dir_given |-> given, config |-> NoneD]

\* Lightx2vWanVideoT5EncoderLoader.load_t5_encoder
load_t5_encoder(f, model_name, model_dir) ==
    LET given == Truthy(model_dir)
        md == PathOf(model_dir)
        ckpt == IF given THEN Join(md, model_name) ELSE PathOf(model_name)
        tok == IF given
               THEN Join(Join(md, Str(FALSE, <<"google">>)), Str(FALSE, <<"umt5-xxl">>))
               ELSE Join(Join(Parent(ckpt), Str(FALSE, <<"google">>)),
                         Str(FALSE, <<"umt5-xxl">>))
        R(error, ctor) == LoadResult("load_t5_encoder", error, ctor, ckpt, tok, given)
    IN  IF given THEN R("none", "T5EncoderModel")
        ELSE IF ~Exists(f, ckpt) THEN R("AssertionError", "none")
        ELSE IF ~Exists(f, tok) THEN R("AssertionError", "none")
        ELSE R("none", "T5EncoderModel")

\* Lightx2vWanVideoVaeLoader.load_vae
load_vae(f, model_name, model_dir) ==
    LET given == Truthy(model_dir)
        joined == IF given THEN Join(PathOf(model_dir), model_name) ELSE model_name
        ckpt == PathOf(joined)
        R(error, ctor) == LoadResult("load_vae", error, ctor, ckpt, NoneP, given)
    IN  IF ~Exists(f, ckpt) THEN R("AssertionError", "none")
        ELSE R("none", "WanVAE")

\* Lightx2vWanVideoClipVisionEncoderLoader.load_clip_vision_encoder
load_clip_vision_encoder(f, model_name, tokenizer_path, model_dir) ==
    LET given == Truthy(model_dir)
        md == PathOf(model_dir)
        ckpt == IF given THEN Join(md, model_name) ELSE model_name
        tok == IF given THEN Join(md, tokenizer_path) ELSE tokenizer_path
        R(error, ctor) ==
            LoadResult("load_clip_vision_encoder", error, ctor, ckpt, tok, given)
    IN  IF ~HasExists(ckpt) THEN R("AttributeError", "none")
        ELSE IF ~Exists(f, ckpt) THEN R("AssertionError", "none")
        ELSE IF ~HasExists(tok) THEN R("AttributeError", "none")
        ELSE IF ~Exists(f, tok) THEN R("AssertionError", "none")
        ELSE R("none", "ClipVisionModel")

----------------------------------------------------------------------------
(* Lightx2vWanVideoModelLoader.load_model *)

\* The widget values of one load_model call.
Precisions == {"bf16"}
ModelTypes == {"t2v", "i2v"}
DefaultThresh == 260

\* comfy_mm.get_torch_device() for "cuda", torch.device("cpu") otherwise.
ResolveDevice(device) == IF device = "cuda" THEN "cuda:0" ELSE "cpu"

\* A variant of WidgetConfig that keeps the default teacache_thresh whatever
\* teacache_args holds.
WidgetConfigDefaultThresh(w, model_name) ==
    [do_mm_calib |-> FALSE,
     cpu_offload |-> w.cpu_offload,
     parallel_attn_type |-> "None",
     parallel_vae |-> FALSE,
     max_area |-> FALSE,
     vae_stride |-> <<4, 8, 8>>,
     patch_size |-> <<1, 2, 2>>,
     feature_caching |-> IF ~IsNone(w.teacache_args) THEN "Tea" ELSE "NoCaching",
     teacache_thresh |-> DefaultThresh,
     use_ret_steps |-> FALSE,
     use_bfloat16 |-> (w.precision = "bf16"),
     mm_config |-> [mm_type |-> w.mm_type,
                    weight_auto_quant |-> (w.mm_type # "Default")],
     model_path |-> model_name,
     task |-> w.model_type,
     model_cls |-> "wan2.1",
     device |-> ResolveDevice(w.device),
     attention_type |-> w.attention_type,
     lora_path |-> IF Truthy(w.lora_path) THEN w.lora_path ELSE NoneP,
     strength_model |-> w.lora_strength]

\* The config dict load_model builds from its widgets, before config.json is
\* merged into it.  w is the record of the call's arguments, model_name the
\* path the call resolved.
WidgetConfig(w, model_name) ==
    LET feature_caching == IF ~IsNone(w.teacache_args) THEN "Tea" ELSE "NoCaching"
        teacache_thresh == IF ~IsNone(w.teacache_args) /\ DOMAIN w.teacache_args # {}
                           THEN w.teacache_args.rel_l1_thresh ELSE DefaultThresh
    IN  [do_mm_calib |-> FALSE,
         cpu_offload |-> w.cpu_offload,
         parallel_attn_type |-> "None",
         parallel_vae |-> FALSE,
         max_area |-> FALSE,
         vae_stride |-> <<4, 8, 8>>,
         patch_size |-> <<1, 2, 2>>,
         feature_caching |-> feature_caching,
         teacache_thresh |-> teacache_thresh,
         use_ret_steps |-> FALSE,
         use_bfloat16 |-> (w.precision = "bf16"),
         mm_config |-> [mm_type |-> w.mm_type,
                        weight_auto_quant |-> (w.mm_type # "Default")],
         model_path |-> model_name,
         task |-> w.model_type,
         model_cls |-> "wan2.1",
         device |-> ResolveDevice(w.device),
         attention_type |-> w.attention_type,
         lora_path |-> IF Truthy(w.lora_path) THEN w.lora_path ELSE NoneP,
         strength_model |-> w.lora_strength]

\* config.update(**config_json): config.json over the widget-derived config.
MergeConfig(config, cj) == Update(config, cj)

\* The outcome of one load_model call on file system f with config.json
\* content cj: as LoadResult, with the config handed to WanModel and the
\* value returned to the host.
load_model(f, cj, w) ==
    LET given == Truthy(w.model_dir)
        model_name == IF given THEN Join(PathOf(w.model_dir), w.model_name)
                      ELSE w.model_name
        config_json_path == IF IsDir(f, model_name)
                            THEN Join(model_name, Str(FALSE, <<"config.json">>))
                            ELSE Join(Parent(model_name), Str(FALSE, <<"config.json">>))
        config == MergeConfig(WidgetConfig(w, model_name), cj)
        R(error, ctor, cfg) ==
            [LoadResult("load_model", error, ctor, model_name, NoneP, given)
                EXCEPT !.config = cfg]
    IN  IF ~Truthy(model_name) THEN R("AssertionError", "none", NoneD)
        ELSE IF ~HasExists(model_name) THEN R("AttributeError", "none", NoneD)
        ELSE IF ~Exists(f, model_name) THEN R("AssertionError", "none", NoneD)
        ELSE IF ~Exists(f, config_json_path) THEN R("FileNotFoundError", "none", NoneD)
        ELSE R("none", "WanModel", config)

----------------------------------------------------------------------------
(* WanVideoTeaCache.process *)

\* The body of process, with the values of its parameters.
process(rel_l1_thresh, start_step, end_step, cache_device, coefficients, mode) ==
    LET teacache_device == IF cache_device = "main_device" THEN "cuda:0" ELSE "cpu"
    IN  [rel_l1_thresh |-> rel_l1_thresh,
         start_step |-> start_step,
         end_step |-> end_step,
         cache_device |-> teacache_device,
         coefficients |-> coefficients,
         mode |-> mode]

\* Widget values of the TeaCache node, in thousandths.
Thresholds == {300}
StartPercents == {100, 500}
EndPercents == {1000}

----------------------------------------------------------------------------
(* Lightx2vWanVideoImageEncoder.encode_image and                            *)
(* Lightx2vWanVideoEmptyEmbeds.process                                      *)

\* floor(sqrt(n)), by bisection on lo..hi
RECURSIVE SqrtIn(_, _, _)
SqrtIn(n, lo, hi) ==
    IF lo >= hi THEN lo
    ELSE LET mid == (lo + hi + 1) \div 2
         IN  IF mid * mid <= n THEN SqrtIn(n, mid, hi) ELSE SqrtIn(n, lo, mid - 1)
Isqrt(n) == SqrtIn(n, 0, n)

\* The config encode_image builds, with lat_h and lat_w assigned.  The image
\* is img_h by img_w; np.sqrt(x) // a is floor(sqrt(x) / a), which for the
\* integer a is floor(floor(sqrt(floor(x))) / a).
ImageEncoderConfig(height, width, num_frames, img_h, img_w) ==
    LET vae_stride == <<4, 8, 8>>
        patch_size == <<1, 2, 2>>
        max_area == height * width
        lat_h == ((Isqrt((max_area * img_h) \div img_w) \div vae_stride[2])
                    \div patch_size[2]) * patch_size[2]
        lat_w == ((Isqrt((max_area * img_w) \div img_h) \div vae_stride[3])
                    \div patch_size[3]) * patch_size[3]
    IN  [cpu_offload |-> FALSE,
         target_height |-> height,
         target_width |-> width,
         target_video_length |-> num_frames,
         vae_stride |-> vae_stride,
         patch_size |-> patch_size,
         lat_h |-> lat_h,
         lat_w |-> lat_w]

\* The dict encode_image returns; the two tensors are opaque.
encode_image(height, width, num_frames, img_h, img_w) ==
    [clip_encoder_out |-> "clip_encoder_out",
     vae_encode_out |-> "vae_encode_out",
     config |-> ImageEncoderConfig(height, width, num_frames, img_h, img_w)]

\* The dict Lightx2vWanVideoEmptyEmbeds.process returns.
empty_embeds(num_frames, width, height) ==
    [config |-> [target_height |-> height,
                 target_width |-> width,
                 target_video_length |-> num_frames,
                 vae_stride |-> <<4, 8, 8>>,
                 patch_size |-> <<1, 2, 2>>]]

\* Widget values of the embeddings nodes and the sizes of the input image.
Widths == {64}
Heights == {64}
NumFrames == {1, 5}
ImageShapes == {<<64, 64>>}

----------------------------------------------------------------------------
(* Lightx2vWanVideoSampler.sample: the config it builds *)

\* model_config.update(image_config)
MergeImageConfig(model_config, emb) == Update(model_config, emb.config)

\* A variant of MissingEncoderOut that forgets the task.
MissingEncoderOutAnyTask(model_config, emb) ==
    \/ "clip_encoder_out" \notin DOMAIN emb
    \/ "vae_encode_out" \notin DOMAIN emb

\* Whether sample raises ValueError: the task is i2v and an encoder output
\* is missing from the image embeddings.
MissingEncoderOut(model_config, emb) ==
    /\ model_config.task = "i2v"
    /\ \/ "clip_encoder_out" \notin DOMAIN emb
       \/ "vae_encode_out" \notin DOMAIN emb

\* The sampling settings sample assigns from its widgets; cfg_scale is in
\* thousandths, so math.isclose(cfg_scale, 1.0) is cfg_scale = 1000.
SampleSettings(model_config, a) ==
    Update(model_config,
           [infer_steps |-> a.steps,
            sample_shift |-> a.shift,
            sample_guide_scale |-> a.cfg_scale,
            seed |-> a.seed,
            enable_cfg |-> (a.cfg_scale # 1000),
            offload_granularity |-> "block"])

\* The i2v branch reads lat_h and lat_w; on an EasyDict a missing key raises
\* AttributeError.
TargetShapeFails(c) ==
    c.task = "i2v" /\ ({"lat_h", "lat_w"} \ DOMAIN c) # {}

\* wan_runner.set_target_shape: target_shape is assigned for i2v and for t2v,
\* and left alone for any other task.
SetTargetShape(c) ==
    LET num_channels_latents ==
            IF "num_channels_latents" \in DOMAIN c THEN c.num_channels_latents ELSE 16
    IN  IF c.task = "i2v"
        THEN Set(c, "target_shape",
                 <<num_channels_latents,
                   (c.target_video_length - 1) \div c.vae_stride[1] + 1,
                   c.lat_h,
                   c.lat_w>>)
        ELSE IF c.task = "t2v"
        THEN Set(c, "target_shape",
                 <<16,
                   (c.target_video_length - 1) \div 4 + 1,
                   c.target_height \div c.vae_stride[2],
                   c.target_width \div c.vae_stride[3]>>)
        ELSE c

\* A variant of SchedulerClass that falls back to WanScheduler.
SchedulerClassFallback(c) ==
    IF c.feature_caching = "Tea" THEN "WanSchedulerTeaCaching" ELSE "WanScheduler"

\* The class of scheduler sample builds for a config; "none" is the
\* NotImplementedError branch.
SchedulerClass(c) ==
    IF c.feature_caching = "NoCaching" THEN "WanScheduler"
    ELSE IF c.feature_caching = "Tea" THEN "WanSchedulerTeaCaching"
    ELSE "none"

\* The wrapped library's scheduler constructor: the scheduler keeps the
\* config's infer_steps, which the sampling loop reads back.
NewScheduler(cls, c) == [cls |-> cls, infer_steps |-> c.infer_steps]

----------------------------------------------------------------------------
(* The state machine *)

Nodes ==
    {"Lightx2vWanVideoModelDir", "Lightx2vWanVideoT5EncoderLoader",
     "Lightx2vWanVideoT5Encoder", "Lightx2vWanVideoClipVisionEncoderLoader",
     "Lightx2vWanVideoVaeLoader", "Lightx2vTeaCache", "Lightx2vWanVideoEmptyEmbeds",
     "Lightx2vWanVideoImageEncoder", "Lightx2vWanVideoVaeDecoder",
     "Lightx2vWanVideoModelLoader", "Lightx2vWanVideoSampler"}

NoLoad == LoadResult("none", "none", "none", NoneP, NoneP, FALSE)

\* Nothing has been called yet.
InitNodes ==
    /\ last = NoLoad
    /\ wan_model = NoneD
    /\ loader_args = NoneD
    /\ loader_config = NoneD
    /\ ran_before = "never"
    /\ pc = "idle"
    /\ args = NoneD
    /\ scheduler = NoneD
    /\ calls = <<>>
    /\ progress = [total |-> 0, n |-> 0]
    /\ step_index = 0
    /\ outcome = "none"
    /\ bound = [n \in Nodes |-> "not called"]
    /\ dpc = "idle"
    /\ latent = NoneD
    /\ decoded_images = NoneD
    /\ images = NoneD
    /\ dcalls = <<>>
    /\ epc = "idle"
    /\ econfig = NoneD
    /\ msk = NoneD
    /\ eout = NoneD

\* Any file system; config.json has a content when it exists.
InitLoad ==
    /\ fs \in FileSystems
    /\ config_json \in (IF ConfigJsonPath \in fs THEN ConfigJsons ELSE {NoneD})
    /\ InitNodes

\* The model directory is complete.
Init ==
    /\ fs = {Cwd, ModelDirPath, <<"M", "google">>} \cup Under
    /\ config_json \in ConfigJsons
    /\ InitNodes

\* The teacache_args a load_model call can be given: not connected, or the
\* output of the TeaCache node.
TeaCacheArgs ==
    {NoneD} \cup
    {process(r, s, e, "offload_device", "i2v-14B-720p", "e") :
        r \in Thresholds, s \in StartPercents, e \in EndPercents}

\* The arguments of a load_model call, for the given names, directories,
\* model types, cpu_offload values and teacache_args.
LoaderArgs(names, dirs, types, offloads, teas) ==
    [model_name : names, model_type : types, precision : Precisions,
     device : {"cuda"}, attention_type : {"flash_attn3"}, mm_type : {"Default"},
     lora_path : {NoneP}, lora_strength : {1000}, cpu_offload : offloads,
     teacache_args : teas, model_dir : dirs]

\* The value load_model returns: the WanModel it constructed and its config.
LoadedModel(r) ==
    [wan_model |-> [cls |-> r.ctor, model_path |-> r.checkpoint_path, scheduler |-> "none"],
     config |-> r.config]

idle == pc = "idle" /\ dpc = "idle" /\ epc = "idle"

\* One load_model call with arguments w.
LoadModel(w) ==
    /\ idle
    /\ LET r == load_model(fs, config_json, w)
       IN  /\ last' = r
           /\ IF r.error = "none"
              THEN /\ wan_model' = LoadedModel(r)
                   /\ loader_args' = w
                   /\ loader_config' = r.config
                   /\ ran_before' = "never"
              ELSE UNCHANGED <<wan_model, loader_args, loader_config, ran_before>>
    /\ UNCHANGED <<envVars, sampleVars, hostVars, decodeVars, encodeVars>>

\* One load_t5_encoder, load_vae, load_clip_vision_encoder call.
LoadT5Encoder(model_name, model_dir) ==
    /\ idle
    /\ last' = load_t5_encoder(fs, model_name, model_dir)
    /\ UNCHANGED <<envVars, wan_model, loader_args, loader_config, ran_before,
                   sampleVars, hostVars, decodeVars, encodeVars>>

LoadVae(model_name, model_dir) ==
    /\ idle
    /\ last' = load_vae(fs, model_name, model_dir)
    /\ UNCHANGED <<envVars, wan_model, loader_args, loader_config, ran_before,
                   sampleVars, hostVars, decodeVars, encodeVars>>

LoadClipVisionEncoder(model_name, tokenizer_path, model_dir) ==
    /\ idle
    /\ last' = load_clip_vision_encoder(fs, model_name, tokenizer_path, model_dir)
    /\ UNCHANGED <<envVars, wan_model, loader_args, loader_config, ran_before,
                   sampleVars, hostVars, decodeVars, encodeVars>>

NextLoad ==
    \/ \E w \in LoaderArgs(ModelNames, ModelDirs, {"i2v"}, {FALSE}, {NoneD}) :
          LoadModel(w)
    \/ \E n \in ModelNames, d \in ModelDirs : LoadT5Encoder(n, d)
    \/ \E n \in ModelNames, d \in ModelDirs : LoadVae(n, d)
    \/ \E n \in ModelNames, t \in TokenizerNames, d \in ModelDirs :
          LoadClipVisionEncoder(n, t, d)

SpecLoad == InitLoad /\ [][NextLoad]_vars

----------------------------------------------------------------------------
(* Lightx2vWanVideoSampler.sample, step by step *)

MaxSteps == 2

\* The image embeddings the two embeddings nodes produce.
Embeddings ==
    {encode_image(h, w, n, i[1], i[2]) :
        h \in Heights, w \in Widths, n \in NumFrames, i \in ImageShapes}
    \cup {empty_embeds(n, w, h) : n \in NumFrames, w \in Widths, h \in Heights}

\* The arguments of a sample call (model is wan_model; the text embeddings
\* are passed through unread).
SampleArgs ==
    [image_embeddings : Embeddings, steps : 1..MaxSteps, shift : {5000},
     cfg_scale : {1000, 5000}, seed : {42}]

Call(op, i) == [op |-> op, i |-> i]

\* A variant of InRange that runs one step more.
InRangeInclusive(i, sched) == i <= sched.infer_steps

\* for step_index in range(scheduler.infer_steps): whether index i is in range
InRange(i, sched) == i < sched.infer_steps

\* The start of a call, up to wan_runner.set_target_shape: the image config is
\* merged into the model's config in place, the encoder outputs are checked,
\* the sampling settings and target_shape are assigned.
SampleBegin(a) ==
    /\ idle
    /\ ~IsNone(wan_model)
    /\ LET merged == MergeImageConfig(wan_model.config, a.image_embeddings)
           settings == SampleSettings(merged, a)
       IN  IF MissingEncoderOut(merged, a.image_embeddings)
           THEN /\ wan_model' = [wan_model EXCEPT !.config = merged]
                /\ outcome' = "ValueError"
                /\ pc' = "idle"
           ELSE IF TargetShapeFails(settings)
           THEN /\ wan_model' = [wan_model EXCEPT !.config = settings]
                /\ outcome' = "AttributeError"
                /\ pc' = "idle"
           ELSE /\ wan_model' = [wan_model EXCEPT !.config = SetTargetShape(settings)]
                /\ outcome' = "running"
                /\ pc' = "init_scheduler"
    /\ args' = a
    /\ ran_before' = IF ran_before = "never" THEN "first" ELSE "later"
    /\ scheduler' = NoneD
    /\ calls' = <<>>
    /\ progress' = [total |-> 0, n |-> 0]
    /\ step_index' = 0
    /\ UNCHANGED <<envVars, last, loader_args, loader_config, hostVars, decodeVars, encodeVars>>

\* wan_runner.init_scheduler
SampleInitScheduler ==
    /\ pc = "init_scheduler"
    /\ LET cls == SchedulerClass(wan_model.config)
       IN  IF cls = "none"
           THEN /\ outcome' = "NotImplementedError"
                /\ pc' = "idle"
                /\ UNCHANGED scheduler
           ELSE /\ scheduler' = NewScheduler(cls, wan_model.config)
                /\ pc' = "set_scheduler"
                /\ UNCHANGED outcome
    /\ UNCHANGED <<envVars, loadVars, args, calls, progress, step_index,
                   hostVars, decodeVars, encodeVars>>

\* wan_model.set_scheduler(scheduler)
SampleSetScheduler ==
    /\ pc = "set_scheduler"
    /\ calls' = Append(calls, Call("set_scheduler", -1))
    /\ wan_model' = [wan_model EXCEPT !.wan_model.scheduler = scheduler.cls]
    /\ pc' = "prepare"
    /\ UNCHANGED <<envVars, last, loader_args, loader_config, ran_before, args,
                   scheduler, progress, step_index, outcome, hostVars, decodeVars, encodeVars>>

\* scheduler.prepare(image_encoder_output)
SamplePrepare ==
    /\ pc = "prepare"
    /\ calls' = Append(calls, Call("prepare", -1))
    /\ pc' = "progress"
    /\ UNCHANGED <<envVars, loadVars, args, scheduler, progress, step_index,
                   outcome, hostVars, decodeVars, encodeVars>>

\* progress = ProgressBar(steps), and the entry into the loop
SampleProgressBar ==
    /\ pc = "progress"
    /\ progress' = [total |-> args.steps, n |-> 0]
    /\ step_index' = 0
    /\ pc' = IF InRange(0, scheduler) THEN "step_pre" ELSE "clear"
    /\ UNCHANGED <<envVars, loadVars, args, scheduler, calls, outcome,
                   hostVars, decodeVars, encodeVars>>

\* scheduler.step_pre(step_index=step_index)
SampleStepPre ==
    /\ pc = "step_pre"
    /\ calls' = Append(calls, Call("step_pre", step_index))
    /\ pc' = "infer"
    /\ UNCHANGED <<envVars, loadVars, args, scheduler, progress, step_index,
                   outcome, hostVars, decodeVars, encodeVars>>

\* wan_model.infer(inputs)
SampleInfer ==
    /\ pc = "infer"
    /\ calls' = Append(calls, Call("infer", -1))
    /\ pc' = "step_post"
    /\ UNCHANGED <<envVars, loadVars, args, scheduler, progress, step_index,
                   outcome, hostVars, decodeVars, encodeVars>>

\* scheduler.step_post()
SampleStepPost ==
    /\ pc = "step_post"
    /\ calls' = Append(calls, Call("step_post", -1))
    /\ pc' = "update"
    /\ UNCHANGED <<envVars, loadVars, args, scheduler, progress, step_index,
                   outcome, hostVars, decodeVars, encodeVars>>

\* progress.update(1), and the next iteration of the loop or its end
SampleProgressUpdate ==
    /\ pc = "update"
    /\ progress' = [progress EXCEPT !.n = @ + 1]
    /\ IF InRange(step_index + 1, scheduler)
       THEN step_index' = step_index + 1 /\ pc' = "step_pre"
       ELSE step_index' = step_index /\ pc' = "clear"
    /\ UNCHANGED <<envVars, loadVars, args, scheduler, calls, outcome,
                   hostVars, decodeVars, encodeVars>>

\* scheduler.clear()
SampleClear ==
    /\ pc = "clear"
    /\ calls' = Append(calls, Call("clear", -1))
    /\ pc' = "return"
    /\ UNCHANGED <<envVars, loadVars, args, scheduler, progress, step_index,
                   outcome, hostVars, decodeVars, encodeVars>>

\* torch.cuda.empty_cache() and the return, which reads scheduler.latents and
\* scheduler.generator
SampleReturn ==
    /\ pc = "return"
    /\ calls' = calls \o <<Call("empty_cache", -1), Call("latents", -1),
                           Call("generator", -1)>>
    /\ outcome' = "returned"
    /\ pc' = "idle"
    /\ UNCHANGED <<envVars, loadVars, args, scheduler, progress, step_index,
                   hostVars, decodeVars, encodeVars>>

\* The host runs the model loader once and keeps its output: every sample
\* call gets the same wan_model value.
Next ==
    \/ \E w \in LoaderArgs({Str(FALSE, <<>>)}, {Str(TRUE, ModelDirPath)},
                           ModelTypes, BOOLEAN, TeaCacheArgs) :
          IsNone(wan_model) /\ LoadModel(w)
    \/ \E a \in SampleArgs : SampleBegin(a)
    \/ SampleInitScheduler
    \/ SampleSetScheduler
    \/ SamplePrepare
    \/ SampleProgressBar
    \/ SampleStepPre
    \/ SampleInfer
    \/ SampleStepPost
    \/ SampleProgressUpdate
    \/ SampleClear
    \/ SampleReturn

Spec == Init /\ [][Next]_vars

----------------------------------------------------------------------------
(* The host's call of a node: NODE_CLASS_MAPPINGS names the class, FUNCTION  *)
(* the method, INPUT_TYPES the inputs, which the host passes by keyword.     *)

\* INPUT_TYPES of each node: the names of the required and the optional inputs.
Declared(n) ==
    CASE n = "Lightx2vTeaCache" ->
            [required |-> {"rel_l1_thresh", "start_percent", "end_percent",
                           "cache_device", "coefficients"},
             optional |-> {"mode"}]
      [] n = "Lightx2vWanVideoModelDir" ->
            [required |-> {"model_dir"}, optional |-> {}]
      [] n = "Lightx2vWanVideoT5EncoderLoader" ->
            [required |-> {"model_name", "precision", "device"},
             optional |-> {"model_dir"}]
      [] n = "Lightx2vWanVideoT5Encoder" ->
            [required |-> {"t5_encoder", "prompt", "negative_prompt"}, optional |-> {}]
      [] n = "Lightx2vWanVideoVaeLoader" ->
            [required |-> {"model_name", "precision", "device", "parallel"},
             optional |-> {"model_dir"}]
      [] n = "Lightx2vWanVideoVaeDecoder" ->
            [required |-> {"wan_vae", "latent"}, optional |-> {}]
      [] n = "Lightx2vWanVideoClipVisionEncoderLoader" ->
            [required |-> {"model_name", "tokenizer_path", "precision", "device"},
             optional |-> {"model_dir"}]
      [] n = "Lightx2vWanVideoImageEncoder" ->
            [required |-> {"vae", "clip_vision_encoder", "image", "width", "height",
                           "num_frames"},
             optional |-> {}]
      [] n = "Lightx2vWanVideoEmptyEmbeds" ->
            [required |-> {"width", "height", "num_frames"}, optional |-> {}]
      [] n = "Lightx2vWanVideoModelLoader" ->
            [required |-> {"model_name", "model_type", "precision", "device",
                           "attention_type", "cpu_offload", "mm_type"},
             optional |-> {"teacache_args", "lora_path", "lora_strength", "model_dir"}]
      [] n = "Lightx2vWanVideoSampler" ->
            [required |-> {"model", "text_embeddings", "image_embeddings", "steps",
                           "shift", "cfg_scale", "seed"},
             optional |-> {}]

\* The method FUNCTION names: its parameters (self apart), and those among
\* them that have a default value.
Params(n) ==
    CASE n = "Lightx2vTeaCache" ->
            [all |-> {"rel_l1_thresh", "start_step", "end_step", "cache_device",
                      "coefficients", "mode"},
             defaulted |-> {"mode"}]
      [] n = "Lightx2vWanVideoModelDir" ->
            [all |-> {"model_dir"}, defaulted |-> {}]
      [] n = "Lightx2vWanVideoT5EncoderLoader" ->
            [all |-> {"model_name", "precision", "device", "model_dir"},
             defaulted |-> {"model_dir"}]
      [] n = "Lightx2vWanVideoT5Encoder" ->
            [all |-> {"t5_encoder", "prompt", "negative_prompt"}, defaulted |-> {}]
      [] n = "Lightx2vWanVideoVaeLoader" ->
            [all |-> {"model_name", "precision", "device", "parallel", "model_dir"},
             defaulted |-> {"model_dir"}]
      [] n = "Lightx2vWanVideoVaeDecoder" ->
            [all |-> {"wan_vae", "latent"}, defaulted |-> {}]
      [] n = "Lightx2vWanVideoClipVisionEncoderLoader" ->
            [all |-> {"model_name", "tokenizer_path", "precision", "device", "model_dir"},
             defaulted |-> {"model_dir"}]
      [] n = "Lightx2vWanVideoImageEncoder" ->
            [all |-> {"vae", "image", "clip_vision_encoder", "height", "width",
                      "num_frames"},
             defaulted |-> {}]
      [] n = "Lightx2vWanVideoEmptyEmbeds" ->
            [all |-> {"num_frames", "width", "height", "control_embeds"},
             defaulted |-> {"control_embeds"}]
      [] n = "Lightx2vWanVideoModelLoader" ->
            [all |-> {"model_name", "model_type", "precision", "device",
                      "attention_type", "mm_type", "lora_path", "lora_strength",
                      "cpu_offload", "teacache_args", "model_dir"},
             defaulted |-> {"lora_path", "lora_strength", "cpu_offload",
                            "teacache_args", "model_dir"}]
      [] n = "Lightx2vWanVideoSampler" ->
            [all |-> {"model", "text_embeddings", "steps", "shift", "cfg_scale",
                      "seed", "image_embeddings"},
             defaulted |-> {}]

\* Python's binding of a keyword call: every keyword is a parameter, and
\* every parameter without a default is given.
Binds(kwargs, params) ==
    /\ kwargs \subseteq params.all
    /\ (params.all \ params.defaulted) \subseteq kwargs

\* The host calls node n's FUNCTION with its required inputs and the
\* connected ones, opt, of its optional inputs, by keyword.
HostCall(n, opt) ==
    /\ idle
    /\ opt \subseteq Declared(n).optional
    /\ bound' = [bound EXCEPT ![n] =
                    IF Binds(Declared(n).required \cup opt, Params(n))
                    THEN "bound" ELSE "TypeError"]
    /\ UNCHANGED <<envVars, loadVars, sampleVars, decodeVars, encodeVars>>

NextHost == \E n \in Nodes : \E opt \in SUBSET Declared(n).optional : HostCall(n, opt)

SpecHost == Init /\ [][NextHost]_vars

----------------------------------------------------------------------------
(* Lightx2vWanVideoVaeDecoder.decode_latent, step by step.  A tensor is a    *)
(* record [shape, at]: at maps every index tuple (from 1) to a value, and a  *)
(* value is an integer count of halves (1.0 is 2).                           *)

Indices(shape) ==
    IF Len(shape) = 5
    THEN {<<a, b, c, d, e>> : a \in 1..shape[1], b \in 1..shape[2], c \in 1..shape[3],
                              d \in 1..shape[4], e \in 1..shape[5]}
    ELSE {<<a, b, c, d>> : a \in 1..shape[1], b \in 1..shape[2], c \in 1..shape[3],
                           d \in 1..shape[4]}

\* The tensors wan_vae.decode may return, of layout [1, C, T, H, W]: the
\* values are whole numbers, below -1, within [-1, 1] and above 1.
DecodedShapes ==
    {<<1, c, t, h, w>> : c \in {1, 3}, t \in {1, 2}, h \in {1, 2}, w \in {1, 2}}
DecodedTensors ==
    {[shape |-> sh,
      at |-> [i \in Indices(sh) |->
                2 * (((lo + 3 * i[2] + 2 * i[3] + i[4] + 5 * i[5]) % 7) - 3)]] :
        sh \in DecodedShapes, lo \in 0..2}

\* (decoded_images + 1) / 2
Normalize(t) == [t EXCEPT !.at = [i \in DOMAIN t.at |-> (t.at[i] + 2) \div 2]]

\* A variant of SqueezePermute that permutes to [H, T, W, C].
SqueezePermuteSwapped(t) ==
    LET sh == <<t.shape[4], t.shape[3], t.shape[5], t.shape[2]>>
    IN  [shape |-> sh,
         at |-> [i \in Indices(sh) |-> t.at[<<1, i[4], i[2], i[1], i[3]>>]]]

\* images.squeeze(0).permute(1, 2, 3, 0): [1, C, T, H, W] to [T, H, W, C]
SqueezePermute(t) ==
    LET sh == <<t.shape[3], t.shape[4], t.shape[5], t.shape[2]>>
    IN  [shape |-> sh,
         at |-> [i \in Indices(sh) |-> t.at[<<1, i[4], i[1], i[2], i[3]>>]]]

\* torch.clamp(images, 0, 1)
Clamp(t) ==
    [t EXCEPT !.at = [i \in DOMAIN t.at |->
                        IF t.at[i] < 0 THEN 0 ELSE IF t.at[i] > 2 THEN 2 ELSE t.at[i]]]

\* The call starts: latents and generator are read from the latent dict.
DecodeBegin ==
    /\ idle
    /\ latent' = [samples |-> "latents", generator |-> "generator"]
    /\ decoded_images' = NoneD
    /\ images' = NoneD
    /\ dcalls' = <<>>
    /\ dpc' = "decode"
    /\ UNCHANGED <<envVars, loadVars, sampleVars, hostVars, encodeVars>>

\* decoded_images = wan_vae.decode(latents, generator, config)
DecodeVae(t) ==
    /\ dpc = "decode"
    /\ decoded_images' = t
    /\ dcalls' = Append(dcalls, "decode")
    /\ dpc' = "normalize"
    /\ UNCHANGED <<envVars, loadVars, sampleVars, hostVars, encodeVars, latent, images>>

\* images = (decoded_images + 1) / 2
DecodeNormalize ==
    /\ dpc = "normalize"
    /\ images' = Normalize(decoded_images)
    /\ dpc' = "permute"
    /\ UNCHANGED <<envVars, loadVars, sampleVars, hostVars, encodeVars, latent,
                   decoded_images, dcalls>>

\* images = images.squeeze(0).permute(1, 2, 3, 0).cpu()
DecodePermute ==
    /\ dpc = "permute"
    /\ images' = SqueezePermute(images)
    /\ dcalls' = Append(dcalls, "cpu")
    /\ dpc' = "clamp"
    /\ UNCHANGED <<envVars, loadVars, sampleVars, hostVars, encodeVars, latent,
                   decoded_images>>

\* images = torch.clamp(images, 0, 1)
DecodeClamp ==
    /\ dpc = "clamp"
    /\ images' = Clamp(images)
    /\ dpc' = "empty_cache"
    /\ UNCHANGED <<envVars, loadVars, sampleVars, hostVars, encodeVars, latent,
                   decoded_images, dcalls>>

\* A variant of DecodeEmptyCache that leaves the cache alone.
DecodeEmptyCacheSkipped ==
    /\ dpc = "empty_cache"
    /\ dpc' = "collect"
    /\ UNCHANGED <<envVars, loadVars, sampleVars, hostVars, encodeVars, latent,
                   decoded_images, images, dcalls>>

\* torch.cuda.empty_cache()
DecodeEmptyCache ==
    /\ dpc = "empty_cache"
    /\ dcalls' = Append(dcalls, "empty_cache")
    /\ dpc' = "collect"
    /\ UNCHANGED <<envVars, loadVars, sampleVars, hostVars, encodeVars, latent,
                   decoded_images, images>>

\* gc.collect()
DecodeCollect ==
    /\ dpc = "collect"
    /\ dcalls' = Append(dcalls, "collect")
    /\ dpc' = "return"
    /\ UNCHANGED <<envVars, loadVars, sampleVars, hostVars, encodeVars, latent,
                   decoded_images, images>>

\* return (images,)
DecodeReturn ==
    /\ dpc = "return"
    /\ dcalls' = Append(dcalls, "return")
    /\ dpc' = "idle"
    /\ UNCHANGED <<envVars, loadVars, sampleVars, hostVars, encodeVars, latent,
                   decoded_images, images>>

NextDecode ==
    \/ DecodeBegin
    \/ \E t \in DecodedTensors : DecodeVae(t)
    \/ DecodeNormalize
    \/ DecodePermute
    \/ DecodeClamp
    \/ DecodeEmptyCache
    \/ DecodeCollect
    \/ DecodeReturn

SpecDecode == Init /\ [][NextDecode]_vars

----------------------------------------------------------------------------
(* Lightx2vWanVideoImageEncoder.encode_image, step by step: the first-frame  *)
(* mask.  Tensors are as in decode_latent.                                   *)

\* The largest num_frames of an encode_image call.
MaxFrames == 9

\* The widget values and image sizes of the encode_image calls.  The host
\* offers num_frames = 1 + 4k; a workflow submitted to it can carry any value
\* from min to max.
EncodeFrames == 1..MaxFrames
EncodeSizes == {16, 32}

\* The number of elements of a tensor of shape sh.
RECURSIVE Numel(_)
Numel(sh) == IF sh = <<>> THEN 1 ELSE Head(sh) * Numel(Tail(sh))

\* The position of index i in the row-major storage of a tensor of shape sh,
\* and the index at position n.
RECURSIVE Offset(_, _)
Offset(sh, i) ==
    IF sh = <<>> THEN 0
    ELSE (Head(i) - 1) * Numel(Tail(sh)) + Offset(Tail(sh), Tail(i))
IndexAt(sh, n) ==
    [k \in 1..Len(sh) |-> ((n \div Numel(SubSeq(sh, k + 1, Len(sh)))) % sh[k]) + 1]

\* torch.ones(1, target_video_length, lat_h, lat_w)
Ones(sh) == [shape |-> sh, at |-> [i \in Indices(sh) |-> 1]]

\* msk[:, 1:] = 0
ZeroAfterFirst(t) ==
    [t EXCEPT !.at = [i \in DOMAIN t.at |-> IF i[2] > 1 THEN 0 ELSE t.at[i]]]

\* A variant of RepeatFirstConcat that repeats the first frame 3 times.
RepeatFirstConcat3(t) ==
    LET sh == <<t.shape[1], 3 + (t.shape[2] - 1), t.shape[3], t.shape[4]>>
    IN  [shape |-> sh,
         at |-> [i \in Indices(sh) |->
                    IF i[2] <= 3 THEN t.at[<<i[1], 1, i[3], i[4]>>]
                    ELSE t.at[<<i[1], i[2] - 2, i[3], i[4]>>]]]

\* torch.concat([torch.repeat_interleave(msk[:, 0:1], repeats=4, dim=1),
\*               msk[:, 1:]], dim=1)
RepeatFirstConcat(t) ==
    LET sh == <<t.shape[1], 4 + (t.shape[2] - 1), t.shape[3], t.shape[4]>>
    IN  [shape |-> sh,
         at |-> [i \in Indices(sh) |->
                    IF i[2] <= 4 THEN t.at[<<i[1], 1, i[3], i[4]>>]
                    ELSE t.at[<<i[1], i[2] - 3, i[3], i[4]>>]]]

\* Tensor.view(sh): the same storage read under shape sh; it raises
\* RuntimeError when sh does not hold the tensor's number of elements.
ViewValid(t, sh) == Numel(sh) = Numel(t.shape)
View(t, sh) ==
    [shape |-> sh,
     at |-> [j \in Indices(sh) |-> t.at[IndexAt(t.shape, Offset(sh, j))]]]

\* msk.transpose(1, 2)[0]: [1, T, 4, h, w] to [4, T, h, w]
TransposeFirst(t) ==
    LET sh == <<t.shape[3], t.shape[2], t.shape[4], t.shape[5]>>
    IN  [shape |-> sh,
         at |-> [i \in Indices(sh) |-> t.at[<<1, i[2], i[1], i[3], i[4]>>]]]

\* What a call that raised exception e leaves in place of a return value.
Raised(e) == [error |-> e]

\* The call starts: the config is built, the image is encoded by CLIP, lat_h
\* and lat_w are computed and assigned.
EncodeBegin(height, width, num_frames, img) ==
    /\ idle
    /\ econfig' = ImageEncoderConfig(height, width, num_frames, img[1], img[2])
    /\ msk' = NoneD
    /\ eout' = NoneD
    /\ epc' = "ones"
    /\ UNCHANGED <<envVars, loadVars, sampleVars, hostVars, decodeVars>>

\* msk = torch.ones(1, config.target_video_length, lat_h, lat_w)
EncodeMaskOnes ==
    /\ epc = "ones"
    /\ msk' = Ones(<<1, econfig.target_video_length, econfig.lat_h, econfig.lat_w>>)
    /\ epc' = "zero"
    /\ UNCHANGED <<envVars, loadVars, sampleVars, hostVars, decodeVars, econfig, eout>>

\* msk[:, 1:] = 0
EncodeMaskZero ==
    /\ epc = "zero"
    /\ msk' = ZeroAfterFirst(msk)
    /\ epc' = "concat"
    /\ UNCHANGED <<envVars, loadVars, sampleVars, hostVars, decodeVars, econfig, eout>>

\* msk = torch.concat([repeat_interleave(msk[:, 0:1], 4, dim=1), msk[:, 1:]], dim=1)
EncodeMaskConcat ==
    /\ epc = "concat"
    /\ msk' = RepeatFirstConcat(msk)
    /\ epc' = "view"
    /\ UNCHANGED <<envVars, loadVars, sampleVars, hostVars, decodeVars, econfig, eout>>

\* msk = msk.view(1, msk.shape[1] // 4, 4, lat_h, lat_w)
EncodeMaskView ==
    /\ epc = "view"
    /\ LET sh == <<1, msk.shape[2] \div 4, 4, econfig.lat_h, econfig.lat_w>>
       IN  IF ViewValid(msk, sh)
           THEN /\ msk' = View(msk, sh)
                /\ epc' = "transpose"
                /\ UNCHANGED eout
           ELSE /\ eout' = Raised("RuntimeError")
                /\ epc' = "idle"
                /\ UNCHANGED msk
    /\ UNCHANGED <<envVars, loadVars, sampleVars, hostVars, decodeVars, econfig>>

\* msk = msk.transpose(1, 2)[0]
EncodeMaskTranspose ==
    /\ epc = "transpose"
    /\ msk' = TransposeFirst(msk)
    /\ epc' = "vae_encode"
    /\ UNCHANGED <<envVars, loadVars, sampleVars, hostVars, decodeVars, econfig, eout>>

\* vae.encode of the image and the zero frames, the mask concatenated in
\* front of it, and the return of the image embeddings.
EncodeReturn ==
    /\ epc = "vae_encode"
    /\ eout' = [clip_encoder_out |-> "clip_encoder_out",
                vae_encode_out |-> "vae_encode_out",
                config |-> econfig]
    /\ epc' = "idle"
    /\ UNCHANGED <<envVars, loadVars, sampleVars, hostVars, decodeVars, econfig, msk>>

NextEncode ==
    \/ \E h \in EncodeSizes, w \in EncodeSizes, n \in EncodeFrames, i \in ImageShapes :
          EncodeBegin(h, w, n, i)
    \/ EncodeMaskOnes
    \/ EncodeMaskZero
    \/ EncodeMaskConcat
    \/ EncodeMaskView
    \/ EncodeMaskTranspose
    \/ EncodeReturn

SpecEncode == Init /\ [][NextEncode]_vars

----------------------------------------------------------------------------
(* Properties of the loaders *)

Loaders == {"load_t5_encoder", "load_vae", "load_clip_vision_encoder", "load_model"}

\* C1: in each of the four loaders, with model_dir given or omitted, a
\* checkpoint path that does not exist makes the call fail with an
\* AssertionError, and the wrapped constructor is not invoked on it.
C1_MissingCheckpointAsserts ==
    (last.fn \in Loaders /\ ~Exists(fs, last.checkpoint_path))
        => (last.error = "AssertionError" /\ last.ctor = "none")

\* C7: in load_clip_vision_encoder and load_model, with model_dir omitted
\* (None or empty) and model_name (for CLIP also tokenizer_path) the path
\* string of an existing file or directory, the existence checks pass and the
\* loader constructs the wrapped model (for load_model: once config.json is
\* found).
C7_ModelDirOptional ==
    (/\ last.fn \in {"load_clip_vision_encoder", "load_model"}
     /\ ~last.model_dir_given
     /\ Truthy(last.checkpoint_path)
     /\ Exists(fs, last.checkpoint_path)
     /\ last.fn = "load_clip_vision_encoder" => Exists(fs, last.tokenizer_path))
        => /\ last.error \notin {"AssertionError", "AttributeError"}
           /\ last.fn = "load_clip_vision_encoder" => last.ctor = "ClipVisionModel"
           /\ (last.fn = "load_model" /\ last.error = "none") => last.ctor = "WanModel"

\* The path of config.json next to the model p.
ConfigNextTo(f, p) ==
    IF IsDir(f, p) THEN Resolve(p) \o <<"config.json">>
    ELSE Resolve(Parent(p)) \o <<"config.json">>

\* C10: the config load_model hands to WanModel and returns has the
\* config.json value for every key of config.json and the widget-derived
\* value for every other key; and when config.json does not exist next to
\* the (existing) model, load_model raises FileNotFoundError and constructs
\* no WanModel.
C10_ConfigJsonMerged ==
    /\ (last.fn = "load_model" /\ last.error = "none") =>
          LET widget == WidgetConfig(loader_args, last.checkpoint_path)
          IN  /\ last.ctor = "WanModel"
              /\ wan_model.config = last.config
              /\ DOMAIN last.config = DOMAIN widget \cup DOMAIN config_json
              /\ \A k \in DOMAIN config_json : last.config[k] = config_json[k]
              /\ \A k \in DOMAIN widget \ DOMAIN config_json :
                    last.config[k] = widget[k]
    /\ (/\ last.fn = "load_model"
        /\ Truthy(last.checkpoint_path)
        /\ Exists(fs, last.checkpoint_path)
        /\ ConfigNextTo(fs, last.checkpoint_path) \notin fs)
          => (last.error = "FileNotFoundError" /\ last.ctor = "none")

----------------------------------------------------------------------------
(* Properties of sample *)

PostChoice ==
    {"set_scheduler", "prepare", "progress", "step_pre", "infer", "step_post",
     "update", "clear", "return"}

\* The config in force in the running (or the last) sample call.
Effective == wan_model.config

\* C2: a sample call that comes to choose its scheduler builds a WanScheduler
\* for feature_caching 'NoCaching', a WanSchedulerTeaCaching for 'Tea', and
\* raises NotImplementedError for any other value; when it raises, no
\* scheduler is attached to the model, prepare was not called and no
\* inference step ran.
C2_SchedulerByFeatureCaching ==
    ~IsNone(wan_model) =>
        LET fc == Effective.feature_caching
        IN  /\ (pc \in PostChoice \/ outcome = "returned") =>
                  \/ fc = "NoCaching" /\ scheduler.cls = "WanScheduler"
                  \/ fc = "Tea" /\ scheduler.cls = "WanSchedulerTeaCaching"
            /\ (outcome = "running" /\ pc = "idle") => FALSE
            /\ outcome = "NotImplementedError" =>
                  /\ fc \notin {"NoCaching", "Tea"}
                  /\ pc = "idle"
                  /\ IsNone(scheduler)
                  /\ calls = <<>>
                  /\ wan_model.wan_model.scheduler = "none"
                  /\ progress.n = 0

C2_Witness ==
    /\ outcome = "NotImplementedError"
    /\ ran_before = "later"

\* The calls of one iteration of the sampling loop, from index i up to n - 1.
RECURSIVE LoopCalls(_, _)
LoopCalls(i, n) ==
    IF i >= n THEN <<>>
    ELSE <<Call("step_pre", i), Call("infer", -1), Call("step_post", -1)>>
            \o LoopCalls(i + 1, n)

\* All the calls of a sample call of n steps that returns.
AllCalls(n) ==
    <<Call("set_scheduler", -1), Call("prepare", -1)>> \o LoopCalls(0, n)
        \o <<Call("clear", -1), Call("empty_cache", -1), Call("latents", -1),
             Call("generator", -1)>>

IsPrefix(p, q) == Len(p) <= Len(q) /\ SubSeq(q, 1, Len(p)) = p

StepPosts == Cardinality({k \in 1..Len(calls) : calls[k].op = "step_post"})

\* C3: a sample call that returns has called set_scheduler once, then prepare
\* once, then for i = 0 .. steps - 1 in order step_pre(i), infer, step_post,
\* then clear once, before the latents and the generator are read; the
\* progress bar of total steps gets one update per iteration, steps in all.
C3_CallOrder ==
    /\ (pc # "idle" \/ outcome = "returned") =>
          /\ IsPrefix(calls, AllCalls(args.steps))
          /\ progress.n = StepPosts - (IF pc = "update" THEN 1 ELSE 0)
          /\ pc \in {"step_pre", "infer", "step_post", "update"} => step_index = progress.n
    /\ outcome = "returned" =>
          /\ calls = AllCalls(args.steps)
          /\ progress = [total |-> args.steps, n |-> args.steps]

C3_Witness ==
    /\ outcome = "returned"
    /\ pc = "idle"
    /\ args.steps >= 2
    /\ Len(calls) = 6 + 3 * args.steps

\* The config a sample call with arguments a builds from the loader output c,
\* when nothing else has touched c.
FreshConfig(c, a) ==
    SetTargetShape(SampleSettings(MergeImageConfig(c, a.image_embeddings), a))

\* C4: the config a sample call builds its scheduler from is determined by the
\* loader's output as load_model returned it and by the call's own inputs:
\* no earlier call on the same loaded model shows in it.
C4_NoSharedState ==
    pc = "init_scheduler" => Effective = FreshConfig(loader_config, args)

\* The teacache_args that differ from t in start_step or end_step only.
SameButWindow(t) ==
    {u \in TeaCacheArgs \ {NoneD, t} :
        [u EXCEPT !.start_step = t.start_step, !.end_step = t.end_step] = t}

\* C8: start_percent and end_percent of the TeaCache node reach the sampler:
\* with the node connected to the model loader, a run that differs only in
\* start_percent or end_percent has a different effective config.
C8_TeaCacheWindowReachesSampler ==
    (/\ pc = "init_scheduler"
     /\ ran_before = "first"
     /\ ~IsNone(loader_args.teacache_args))
        => \A u \in SameButWindow(loader_args.teacache_args) :
              LET other == load_model(fs, config_json,
                                      [loader_args EXCEPT !.teacache_args = u])
              IN  FreshConfig(other.config, args) # Effective

\* C9: sample raises ValueError exactly when the effective task is i2v and
\* the image embeddings lack clip_encoder_out or vae_encode_out, and it does
\* so before a scheduler is built or attached and before any inference step.
C9_ValueErrorIffMissing ==
    ~IsNone(args) =>
        LET emb == args.image_embeddings
            lacks == /\ Effective.task = "i2v"
                     /\ ~({"clip_encoder_out", "vae_encode_out"} \subseteq DOMAIN emb)
        IN  /\ outcome = "ValueError" =>
                  /\ lacks
                  /\ pc = "idle"
                  /\ IsNone(scheduler)
                  /\ calls = <<>>
                  /\ progress.n = 0
            /\ outcome # "ValueError" => ~lacks

C9_Witness ==
    /\ outcome = "ValueError"
    /\ args.image_embeddings \in {empty_embeds(n, w, h) :
            n \in NumFrames, w \in Widths, h \in Heights}

\* C11: the config load_model builds from its widgets has feature_caching
\* 'Tea' exactly when teacache_args is connected and 'NoCaching' exactly when
\* it is not, with teacache_thresh the connected rel_l1_thresh for 'Tea' and
\* 0.26 for 'NoCaching'; so with a config.json that does not define
\* feature_caching the loaded model has one of the two values, keeps it
\* through sample, and sample never raises NotImplementedError.
C11_TeaCacheDecidesCaching ==
    ~IsNone(loader_args) =>
        LET connected == ~IsNone(loader_args.teacache_args)
            widget == WidgetConfig(loader_args, last.checkpoint_path)
        IN  /\ (widget.feature_caching = "Tea") <=> connected
            /\ (widget.feature_caching = "NoCaching") <=> ~connected
            /\ connected =>
                  widget.teacache_thresh = loader_args.teacache_args.rel_l1_thresh
            /\ ~connected => widget.teacache_thresh = DefaultThresh
            /\ "feature_caching" \notin DOMAIN config_json =>
                  /\ loader_config.feature_caching = widget.feature_caching
                  /\ loader_config.teacache_thresh =
                        IF "teacache_thresh" \in DOMAIN config_json
                        THEN config_json.teacache_thresh ELSE widget.teacache_thresh
                  /\ Effective.feature_caching = widget.feature_caching
                  /\ outcome # "NotImplementedError"

C11_Witness ==
    /\ outcome = "returned"
    /\ "feature_caching" \notin DOMAIN config_json
    /\ ~IsNone(loader_args.teacache_args)
    /\ loader_args.teacache_args.rel_l1_thresh # DefaultThresh
    /\ scheduler.cls = "WanSchedulerTeaCaching"

\* The keys of the image-embedding configs that describe geometry.
GeometryKeys ==
    {"target_height", "target_width", "target_video_length", "vae_stride",
     "patch_size", "lat_h", "lat_w"}

\* C12: in the first sample call on a loaded model, every key of the loader's
\* output other than the geometry keys, cpu_offload among them, has in the
\* config the scheduler is built from the value it had in the loader's
\* output, whichever embeddings node produced the image embeddings.
C12_MergeChangesGeometryOnly ==
    (pc = "init_scheduler" /\ ran_before = "first") =>
        \A k \in DOMAIN loader_config \ GeometryKeys :
            k \in DOMAIN Effective /\ Effective[k] = loader_config[k]

\* C13: a sample call that comes to build its scheduler has target_shape in
\* its config, with temporal entry (target_video_length - 1) div
\* vae_stride[0] + 1: for i2v (num_channels_latents or 16, that entry, lat_h,
\* lat_w), for t2v (16, that entry, target_height div vae_stride[1],
\* target_width div vae_stride[2]).
C13_TargetShapeAssigned ==
    pc = "init_scheduler" =>
        /\ "target_shape" \in DOMAIN Effective
        /\ LET c == Effective
               temporal == (c.target_video_length - 1) \div c.vae_stride[1] + 1
               channels == IF "num_channels_latents" \in DOMAIN c
                           THEN c.num_channels_latents ELSE 16
           IN  /\ c.task \in {"i2v", "t2v"}
               /\ c.task = "i2v" =>
                     c.target_shape = <<channels, temporal, c.lat_h, c.lat_w>>
               /\ c.task = "t2v" =>
                     c.target_shape = <<16, temporal,
                                        c.target_height \div c.vae_stride[2],
                                        c.target_width \div c.vae_stride[3]>>

----------------------------------------------------------------------------
(* Properties of the node registration *)

\* C5: for every registered node the host's keyword call of FUNCTION binds:
\* every declared input, required or optional, is a parameter of the method,
\* and every parameter without a default is a declared required input.
C5_KeywordCallBinds ==
    \A n \in Nodes :
        bound[n] # "not called" =>
            /\ bound[n] = "bound"
            /\ (Declared(n).required \cup Declared(n).optional) \subseteq Params(n).all
            /\ (Params(n).all \ Params(n).defaulted) \subseteq Declared(n).required

----------------------------------------------------------------------------
(* Properties of decode_latent *)

\* C6: in a decode_latent call that returns, the accelerator cache is emptied
\* and then the garbage collector run, each exactly once, after the VAE has
\* decoded the frames and they were moved to host memory, and before the
\* images are returned.
C6_CleanupOrder ==
    /\ IsPrefix(dcalls, <<"decode", "cpu", "empty_cache", "collect", "return">>)
    /\ (dpc = "idle" /\ dcalls # <<>>) =>
          dcalls = <<"decode", "cpu", "empty_cache", "collect", "return">>
    /\ dpc \in {"empty_cache", "collect", "return"} => Len(images.shape) = 4

C6_Witness ==
    /\ dpc = "idle"
    /\ Len(dcalls) = 5
    /\ dcalls[5] = "return"

\* C15: decode_latent returns, for a decoded tensor of layout [1, C, T, H, W],
\* a tensor of layout [T, H, W, C] whose element (t, h, w, c) is the decoded
\* element (0, c, t, h, w) mapped by x -> (x + 1) / 2 and clamped to [0, 1].
\* Decoded values are held as twice their value and image values in halves.
C15_DecodeLayout ==
    (dpc \in {"empty_cache", "collect", "return"} \/ (dpc = "idle" /\ dcalls # <<>>)) =>
        LET d == decoded_images
            T == d.shape[3]
            H == d.shape[4]
            W == d.shape[5]
            C == d.shape[2]
        IN  /\ images.shape = <<T, H, W, C>>
            /\ DOMAIN images.at =
                  {<<t, h, w, c>> : t \in 1..T, h \in 1..H, w \in 1..W, c \in 1..C}
            /\ \A i \in DOMAIN images.at :
                  LET x == d.at[<<1, i[4], i[1], i[2], i[3]>>]
                  IN  /\ images.at[i] = IF x < -2 THEN 0 ELSE IF x > 2 THEN 2
                                         ELSE (x + 2) \div 2
                      /\ images.at[i] >= 0
                      /\ images.at[i] <= 2

C15_Witness ==
    /\ dpc = "idle"
    /\ dcalls # <<>>
    /\ decoded_images.shape = <<1, 3, 2, 1, 2>>
    /\ \E i \in DOMAIN decoded_images.at : decoded_images.at[i] < -2
    /\ \E i \in DOMAIN decoded_images.at : decoded_images.at[i] > 2
    /\ \E i \in DOMAIN images.at : images.at[i] = 1

----------------------------------------------------------------------------
(* Properties of encode_image *)

\* Whether the host's widget offers num_frames n: min 1, max 10000, step 4.
WidgetFrames(n) == n >= 1 /\ n <= 10000 /\ (n - 1) % 4 = 0

\* The temporal entry of the target_shape sample computes for an i2v model
\* from the config of the running encode_image call.
I2vTemporal ==
    SetTargetShape(Update(econfig, [task |-> "i2v"])).target_shape[2]

\* C14: for a num_frames the widget offers, the mask has num_frames + 3
\* temporal entries after the first frame was repeated 4 times, a count
\* divisible by 4; it regroups into 4 channels by (num_frames - 1) div 4 + 1
\* latent frames, the temporal length of the sampler's i2v target_shape, and
\* is 1 exactly at latent frame 0 and 0 elsewhere.  For any other num_frames
\* the regrouping fails.
C14_FirstFrameMask ==
    ~IsNone(econfig) =>
        LET n == econfig.target_video_length
            frames == (n - 1) \div 4 + 1
        IN  /\ epc = "view" =>
                  /\ msk.shape = <<1, n + 3, econfig.lat_h, econfig.lat_w>>
                  /\ WidgetFrames(n) => msk.shape[2] % 4 = 0
            /\ (epc \in {"vae_encode"} \/ (epc = "idle" /\ eout # Raised("RuntimeError"))) =>
                  /\ WidgetFrames(n)
                  /\ msk.shape = <<4, frames, econfig.lat_h, econfig.lat_w>>
                  /\ frames = I2vTemporal
                  /\ DOMAIN msk.at = Indices(msk.shape)
                  /\ \A i \in DOMAIN msk.at :
                        msk.at[i] = IF i[2] = 1 THEN 1 ELSE 0
            /\ (epc = "idle" /\ eout = Raised("RuntimeError")) => ~WidgetFrames(n)
            /\ epc = "transpose" => WidgetFrames(n)

C14_Witness ==
    /\ epc = "idle"
    /\ eout # Raised("RuntimeError")
    /\ ~IsNone(eout)
    /\ econfig.target_video_length = 9
    /\ msk.shape = <<4, 3, 4, 4>>

====
